---------------------------- MODULE Spec2Model ----------------------------
(***************************************************************************)
(* Model of auto_doc_editor.py: a mail merge that fills the placeholder    *)
(* tokens of a Word template with the cells of each spreadsheet row and    *)
(* writes one document per row from a thread pool.                         *)
(*                                                                         *)
(* A Python str is a sequence of one-character strings.  A cell value is a *)
(* record [t, s, n, f]: t is its Python type ("none", "str", "int",        *)
(* "float"), s the characters of a str, n the integer (or the whole part   *)
(* of a float) and f the tenths digit of a float.  Floats are finite,      *)
(* non-negative and have one fractional digit.                             *)
(*                                                                         *)
(* A Document is its body: a sequence of blocks in XML order, each a       *)
(* paragraph ("p") or a table ("tbl") with the texts of its <w:t>          *)
(* elements in XML order (the runs of a paragraph; the cells of a table    *)
(* row by row).  Every <w:t> holds text.                                   *)
(***************************************************************************)
EXTENDS Integers, Sequences, FiniteSets, TLC

\* ------------------------------------------------------------------ bounds

\* Longest run of underscores in a template text.
MaxRun == 5
\* Most blocks (paragraphs and tables) in a template body.
MaxBlocks == 2
\* Most values in a record handed to replace_placeholders.
MaxVals == 4
\* Most rows of the worksheet after its heading rows.
MaxRows == 2
\* Largest worker pool (max_workers).
MaxWorkers == 2

\* ------------------------------------------------------- strings and values

NoneV == [t |-> "none", s |-> <<>>, n |-> 0, f |-> 0]
StrV(s) == [t |-> "str", s |-> s, n |-> 0, f |-> 0]
IntV(n) == [t |-> "int", s |-> <<>>, n |-> n, f |-> 0]
FloatV(n, f) == [t |-> "float", s |-> <<>>, n |-> n, f |-> f]

Digits == <<"0", "1", "2", "3", "4", "5", "6", "7", "8", "9">>

\* str(n) of a non-negative int.
RECURSIVE IntStr(_)
IntStr(n) ==
  IF n < 10 THEN <<Digits[n + 1]>>
  ELSE IntStr(n \div 10) \o <<Digits[(n % 10) + 1]>>

\* str(value) of a value that is not None.
PyStr(v) ==
  CASE v.t = "str" -> v.s
    [] v.t = "int" -> IntStr(v.n)
    [] v.t = "float" -> IntStr(v.n) \o <<".">> \o <<Digits[v.f + 1]>>

\* isinstance(value, float) and value.is_integer()
IsIntegralFloat(v) == v.t = "float" /\ v.f = 0

\* _format_value without the is_integer branch: 2024.0 stays "2024.0".
FormatKeepsPointZero(value) ==
  IF value.t = "none" THEN <<>> ELSE PyStr(value)

_format_value(value) ==
  IF value.t = "none" THEN <<>>
  ELSE IF IsIntegralFloat(value) THEN IntStr(value.n)
  ELSE PyStr(value)

\* "_" * n
RECURSIVE Underscores(_)
Underscores(n) == IF n = 0 THEN <<>> ELSE <<"_">> \o Underscores(n - 1)

\* The least number of underscores RE_PLACEHOLDER matches: the 4 of _{4,}.
RE_MIN == 4

PLACEHOLDER == <<"_", "_", "_", "_">>

\* ------------------------------------------------------------ the regex

\* RE_PLACEHOLDER matches at position i: RE_MIN underscores start there.
MatchAt(text, i) ==
  /\ i + RE_MIN - 1 <= Len(text)
  /\ \A k \in i..(i + RE_MIN - 1) : text[k] = "_"

\* The last position of the greedy match that starts at i.
RECURSIVE MatchEnd(_, _)
MatchEnd(text, i) ==
  IF i < Len(text) /\ text[i + 1] = "_" THEN MatchEnd(text, i + 1) ELSE i

\* RE_PLACEHOLDER.search(text) finds a match.
Search(text) == \E i \in 1..Len(text) : MatchAt(text, i)

\* next(rep_iter, PLACEHOLDER): cur counts the items rep_iter has yielded.
NextRep(reps, cur) ==
  IF cur < Len(reps) THEN [val |-> reps[cur + 1], cur |-> cur + 1]
  ELSE [val |-> StrV(PLACEHOLDER), cur |-> cur]

\* RE_PLACEHOLDER.sub(lambda _: _format_value(next(rep_iter, PLACEHOLDER)), text)
\* from position i on: matches are found left to right, never overlapping,
\* and the replacement text is not scanned again.
RECURSIVE SubFrom(_, _, _, _)
SubFrom(text, i, cur, reps) ==
  IF i > Len(text) THEN [text |-> <<>>, cur |-> cur]
  ELSE IF MatchAt(text, i) THEN
    LET nx == NextRep(reps, cur)
        rest == SubFrom(text, MatchEnd(text, i) + 1, nx.cur, reps)
    IN [text |-> _format_value(nx.val) \o rest.text, cur |-> rest.cur]
  ELSE
    LET rest == SubFrom(text, i + 1, cur, reps)
    IN [text |-> <<text[i]>> \o rest.text, cur |-> rest.cur]

\* _sub with an iterator of its own: every text element starts again at the
\* first value.
SubFreshIterator(text, cur, reps) == SubFrom(text, 1, 0, reps)

_sub(text, cur, reps) == SubFrom(text, 1, cur, reps)

\* ------------------------------------------------------------ the document

\* document.element.body.iter(qn("w:t")): the <w:t> elements in XML order,
\* each named by its block and its place in the block.
RECURSIVE ElemsFrom(_, _)
ElemsFrom(doc, b) ==
  IF b > Len(doc) THEN <<>>
  ELSE [j \in 1..Len(doc[b].texts) |-> <<b, j>>] \o ElemsFrom(doc, b + 1)

\* The text elements of document.paragraphs, then those of document.tables.
IterParagraphsFirst(document) ==
  LET Of(kind) ==
        SelectSeq(ElemsFrom(document, 1), LAMBDA e : document[e[1]].kind = kind)
  IN Of("p") \o Of("tbl")

_iter_text_elements(document) == ElemsFrom(document, 1)

\* The loop of replace_placeholders from the k-th text element on; one
\* rep_iter (cur) serves the whole loop.
RECURSIVE ReplaceLoop(_, _, _, _, _)
ReplaceLoop(doc, elems, k, cur, reps) ==
  IF k > Len(elems) THEN [doc |-> doc, cur |-> cur]
  ELSE
    LET b == elems[k][1]
        j == elems[k][2]
        text == doc[b].texts[j]
    IN IF Search(text)
       THEN LET r == _sub(text, cur, reps)
            IN ReplaceLoop([doc EXCEPT ![b].texts[j] = r.text],
                           elems, k + 1, r.cur, reps)
       ELSE ReplaceLoop(doc, elems, k + 1, cur, reps)

\* The filled document and the number of values taken from replacements.
replace_placeholders(doc, replacements) ==
  ReplaceLoop(doc, _iter_text_elements(doc), 1, 0, replacements)

\* [_format_value(v) for v in values]
FormatAll(values) == [i \in 1..Len(values) |-> StrV(_format_value(values[i]))]

\* Lines 83-88 of _generate_document: the name and the filled document.
FillDocument(template, values) ==
  [name |-> _format_value(values[1]),
   doc |-> replace_placeholders(template, FormatAll(values)).doc]

\* _generate_document when Document() and doc.save() succeed: the output
\* directory (file name -> Document) after the call. The name stands for the
\* path output_dir / (name + ".docx").
_generate_document(template, values, output_dir) ==
  IF values = <<>> THEN output_dir
  ELSE LET d == FillDocument(template, values)
       IN (d.name :> d.doc) @@ output_dir

\* ------------------------------------------------------ templates, records

\* A text is one run of underscores, or two runs (each empty or a token of
\* RE_MIN underscores) around a letter.
TextSet ==
  {Underscores(n) : n \in (RE_MIN - 1)..MaxRun}
    \cup {Underscores(a) \o <<"x">> \o Underscores(b) : a, b \in {0, RE_MIN}}

\* A block is a paragraph of one run or a table of one cell.
BlockSet == [kind : {"p", "tbl"}, texts : {<<t>> : t \in TextSet}]

BodySet == UNION {[1..n -> BlockSet] : n \in 1..MaxBlocks}

\* Values of every type; "_____" is a value that looks like a token.
ValueRing ==
  <<StrV(<<"a">>), NoneV, FloatV(2024, 0), StrV(Underscores(RE_MIN + 1)),
    FloatV(2024, 5), IntV(12), StrV(<<"2", ".", "0">>), StrV(<<>>)>>

\* The m values of ValueRing from place r on, wrapping around.
Record(r, m) ==
  [i \in 1..m |-> ValueRing[((r + i - 2) % Len(ValueRing)) + 1]]

RecordSet == {Record(r, m) : r \in 1..Len(ValueRing), m \in 0..MaxVals}

\* -------------------------------------------------------------- worksheet

\* The header names, letter by letter in Latin transliteration.
REQUIRED_HEADERS ==
  <<<<"S", "M", " ", "H", "E", "S", "K", " ", "S", "M">>,
    <<"E", "Y", "R">>,
    <<"K", "T", "V", "T">>,
    <<"S", "K", "M">>,
    <<"S", "N", "Y", "M">>>>

\* s.strip(): s without its leading and trailing spaces.
RECURSIVE LStrip(_)
LStrip(s) == IF s /= <<>> /\ Head(s) = " " THEN LStrip(Tail(s)) ELSE s

RECURSIVE RStrip(_)
RStrip(s) ==
  IF s /= <<>> /\ s[Len(s)] = " " THEN RStrip(SubSeq(s, 1, Len(s) - 1)) ELSE s

Strip(s) == RStrip(LStrip(s))

\* [str(c).strip() if c is not None else "" for c in row]
Cells(row) ==
  [c \in 1..Len(row) |-> IF row[c].t = "none" THEN <<>> ELSE Strip(PyStr(row[c]))]

\* The fixed position of the header: the k-th header is the k-th column.
PositionalIndex(cells, h) ==
  (CHOOSE k \in 1..Len(REQUIRED_HEADERS) : REQUIRED_HEADERS[k] = h) - 1

\* cells.index(h), from 0; h is in cells.
IndexOf(cells, h) ==
  (CHOOSE c \in 1..Len(cells) :
     cells[c] = h /\ \A d \in 1..(c - 1) : cells[d] /= h) - 1

\* The loop of _find_header_indexes from row r on. pos is the number of rows
\* the iterator rows has yielded when the function returns.
RECURSIVE FindFrom(_, _)
FindFrom(ws, r) ==
  IF r > Len(ws)
  THEN [found |-> FALSE, idxs |-> <<>>, pos |-> Len(ws)]
  ELSE LET cells == Cells(ws[r])
       IN IF \A k \in 1..Len(REQUIRED_HEADERS) :
               \E c \in 1..Len(cells) : cells[c] = REQUIRED_HEADERS[k]
          THEN [found |-> TRUE,
                idxs |-> [k \in 1..Len(REQUIRED_HEADERS) |->
                            IndexOf(cells, REQUIRED_HEADERS[k])],
                pos |-> r]
          ELSE FindFrom(ws, r + 1)

_find_header_indexes(ws) == FindFrom(ws, 1)

\* The names in the message of the KeyError of _find_header_indexes:
\* ', '.join(REQUIRED_HEADERS).
MissingColumnsMessage(ws) == REQUIRED_HEADERS

\* A row that ends before a resolved column gives no values at all.
RowValuesStrict(row, idxs) ==
  [k \in 1..Len(idxs) |->
     IF \A j \in 1..Len(idxs) : idxs[j] < Len(row) THEN row[idxs[k] + 1] ELSE NoneV]

\* [row[idx] if idx < len(row) else None for idx in indexes]
RowValues(row, idxs) ==
  [k \in 1..Len(idxs) |-> IF idxs[k] < Len(row) THEN row[idxs[k] + 1] ELSE NoneV]

\* any(v is not None for v in values)
AnyValue(values) == \E k \in 1..Len(values) : values[k].t /= "none"

\* ------------------------------------------------------ worksheets, inputs

H(k) == StrV(REQUIRED_HEADERS[k])
Padded(k) == StrV(<<" ">> \o REQUIRED_HEADERS[k] \o <<" ", " ">>)
Word(c) == StrV(<<c>>)

\* The rows a worksheet starts with, and the column (from 0) of each required
\* header in the last of them when that row is a header row.
HeadSet ==
  { [rows |-> <<<<H(1), H(2), H(3), H(4), H(5)>>>>,
     cols |-> <<0, 1, 2, 3, 4>>],
    [rows |-> <<<<Word("t"), NoneV>>,
                <<Padded(5), H(3), Word("n"), H(1), Padded(4), H(2)>>>>,
     cols |-> <<3, 5, 1, 4, 0>>],
    [rows |-> <<<<H(1), H(2), H(3), H(4)>>,
                <<H(2), H(1), H(1), H(5), H(4), H(3)>>>>,
     cols |-> <<1, 0, 5, 4, 3>>],
    [rows |-> <<<<H(1), H(2), NoneV, H(4), H(5)>>>>,
     cols |-> <<0, 1, 2, 3, 4>>],
    [rows |-> <<<<H(1), H(2), H(3)>>, <<H(4), H(5), Word("n")>>>>,
     cols |-> <<0, 1, 2, 3, 4>>] }

Width == 6

\* The row of n cells that holds rec[k] in column cols[k] and "z" elsewhere.
DataRow(cols, rec, n) ==
  [c \in 1..n |->
     IF \E k \in 1..Len(cols) : cols[k] = c - 1
     THEN rec[CHOOSE k \in 1..Len(cols) : cols[k] = c - 1]
     ELSE Word("z")]

Acme == StrV(<<"A", "c">>)

\* The rows after the heading rows: a full row, a row with the same first
\* field, a short row of the same first field, a short row without values
\* and a row of empty strings.
DataRowSet(cols) ==
  { DataRow(cols, <<Acme, Word("c"), Word("m"), FloatV(500, 0), IntV(3)>>, Width),
    DataRow(cols, <<Acme, NoneV, Word("s"), FloatV(2024, 5), NoneV>>, Width),
    DataRow(cols, <<Acme, Word("d"), NoneV, IntV(7), Word("e")>>, 3),
    DataRow(cols, <<NoneV, NoneV, NoneV, NoneV, NoneV>>, 2),
    DataRow(cols, <<StrV(<<>>), StrV(<<>>), StrV(<<>>), StrV(<<>>), StrV(<<>>)>>, Width) }

SheetSet ==
  UNION {{h.rows \o d : d \in UNION {[1..n -> DataRowSet(h.cols)] : n \in 0..MaxRows}} :
           h \in HeadSet}

\* The template file: one that parses to a Document with tokens in a
\* paragraph, a table and a paragraph, more tokens than a record has fields;
\* and one that is no Word document.
TemplateSet ==
  { [ok |-> TRUE,
     body |->
       <<[kind |-> "p", texts |-> <<Underscores(RE_MIN) \o <<"x">> \o Underscores(MaxRun)>>],
         [kind |-> "tbl", texts |-> <<Underscores(RE_MIN), <<"x">>, Underscores(RE_MIN)>>],
         [kind |-> "p", texts |-> <<Underscores(RE_MIN) \o <<"x">> \o Underscores(RE_MIN)>>]>>],
    [ok |-> FALSE, body |-> <<>>] }

\* ------------------------------------------------------------------- state

VARIABLES
  fdoc,    \* the Document handed to replace_placeholders
  fvals,   \* the values handed to it
  fstage,  \* "input", "replaced" (replace_placeholders ran), "generated"
  fout,    \* the Document after the call
  fcur,    \* the number of values the call took
  ws,        \* the rows of the active worksheet
  template,  \* template_bytes: whether it parses, and the Document it
             \* parses to
  workers,   \* max_workers of the executor
  pc,        \* where process_documents is: "start", "loop", "join",
             \* "returned", "raised"
  rowpos,    \* the number of rows the iterator rows has yielded
  indexes,   \* the column of each required header
  error,     \* the names in the message of the exception raised
  tasks,     \* the work items submitted, in order: [row, values, st, exc]
  files,     \* the output directory: file name -> Document
  closed     \* wb.close() was called

fvars == <<fdoc, fvals, fstage, fout, fcur>>

pvars == <<ws, template, workers, pc, rowpos, indexes, error, tasks, files, closed>>

vars == <<fdoc, fvals, fstage, fout, fcur,
          ws, template, workers, pc, rowpos, indexes, error, tasks, files, closed>>

\* process_documents is not running.
ProcessOff ==
  /\ ws = <<>>
  /\ template = [ok |-> FALSE, body |-> <<>>]
  /\ workers = 1
  /\ pc = "off"
  /\ rowpos = 0
  /\ indexes = <<>>
  /\ error = <<>>
  /\ tasks = <<>>
  /\ files = <<>>
  /\ closed = FALSE

\* replace_placeholders is not called on its own.
FillOff ==
  /\ fdoc = <<>>
  /\ fvals = <<>>
  /\ fstage = "off"
  /\ fout = <<>>
  /\ fcur = 0

FillInit ==
  /\ fdoc \in BodySet
  /\ fvals \in RecordSet
  /\ fstage = "input"
  /\ fout = fdoc
  /\ fcur = 0
  /\ ProcessOff

\* replace_placeholders(doc, values)
CallReplace ==
  /\ fstage = "input"
  /\ LET r == replace_placeholders(fdoc, fvals)
     IN /\ fout' = r.doc
        /\ fcur' = r.cur
  /\ fstage' = "replaced"
  /\ UNCHANGED <<fdoc, fvals>>
  /\ UNCHANGED pvars

\* replace_placeholders(doc, [_format_value(v) for v in values]), as
\* _generate_document calls it.
CallGenerate ==
  /\ fstage = "input"
  /\ LET r == replace_placeholders(fdoc, FormatAll(fvals))
     IN /\ fout' = r.doc
        /\ fcur' = r.cur
  /\ fstage' = "generated"
  /\ UNCHANGED <<fdoc, fvals>>
  /\ UNCHANGED pvars

FillNext == CallReplace \/ CallGenerate

SpecFill == FillInit /\ [][FillNext]_vars

\* ------------------------------------------------------- process_documents

\* The state at the call of process_documents(excel_path, template_path,
\* workers).
Init ==
  /\ ws \in SheetSet
  /\ template \in TemplateSet
  /\ workers \in 1..MaxWorkers
  /\ pc = "start"
  /\ rowpos = 0
  /\ indexes = <<>>
  /\ error = <<>>
  /\ tasks = <<>>
  /\ files = <<>>
  /\ closed = FALSE
  /\ FillOff

\* Lines 97-106: the files are opened and _find_header_indexes returns or
\* raises KeyError.
FindHeader ==
  /\ pc = "start"
  /\ LET r == _find_header_indexes(ws)
     IN /\ rowpos' = r.pos
        /\ indexes' = r.idxs
        /\ IF r.found
           THEN pc' = "loop" /\ error' = error
           ELSE pc' = "raised" /\ error' = MissingColumnsMessage(ws)
  /\ UNCHANGED <<ws, template, workers, tasks, files, closed>>
  /\ UNCHANGED fvars

\* Lines 109-117: one turn of the loop over the rows left in the iterator.
LoopRow ==
  /\ pc = "loop"
  /\ rowpos < Len(ws)
  /\ rowpos' = rowpos + 1
  /\ LET values == RowValues(ws[rowpos + 1], indexes)
     IN IF AnyValue(values)
        THEN tasks' = Append(tasks, [row |-> rowpos + 1, values |-> values,
                                     st |-> "queued", exc |-> "none"])
        ELSE tasks' = tasks
  /\ UNCHANGED <<ws, template, workers, pc, indexes, error, files, closed>>
  /\ UNCHANGED fvars

\* The iterator is exhausted: the with block ends and shutdown(wait=True)
\* starts.
LoopEnd ==
  /\ pc = "loop"
  /\ rowpos = Len(ws)
  /\ pc' = "join"
  /\ UNCHANGED <<ws, template, workers, rowpos, indexes, error, tasks, files, closed>>
  /\ UNCHANGED fvars

Running == {t \in 1..Len(tasks) : tasks[t].st = "running"}

\* A worker thread takes any work item of the queue.
TaskStartAnyOrder(t) ==
  /\ tasks[t].st = "queued"
  /\ Cardinality({u \in 1..Len(tasks) : tasks[u].st = "running"}) < workers
  /\ tasks' = [tasks EXCEPT ![t].st = "running"]
  /\ UNCHANGED <<ws, template, workers, pc, rowpos, indexes, error, files, closed>>
  /\ UNCHANGED fvars

\* A worker thread takes the oldest work item of the queue; at most
\* max_workers threads exist.
TaskStart(t) ==
  /\ tasks[t].st = "queued"
  /\ \A u \in 1..(t - 1) : tasks[u].st /= "queued"
  /\ Cardinality(Running) < workers
  /\ tasks' = [tasks EXCEPT ![t].st = "running"]
  /\ UNCHANGED <<ws, template, workers, pc, rowpos, indexes, error, files, closed>>
  /\ UNCHANGED fvars

\* _generate_document(template_bytes, values, output_dir) runs to its end:
\* the document is saved under the formatted first value.
TaskSave(t) ==
  /\ tasks[t].st = "running"
  /\ template.ok
  /\ files' = _generate_document(template.body, tasks[t].values, files)
  /\ tasks' = [tasks EXCEPT ![t].st = "done"]
  /\ UNCHANGED <<ws, template, workers, pc, rowpos, indexes, error, closed>>
  /\ UNCHANGED fvars

\* Document(io.BytesIO(template_bytes)) raises: the executor keeps the
\* exception in the future, which nobody reads, and the worker goes on.
TaskParseFail(t) ==
  /\ tasks[t].st = "running"
  /\ ~template.ok
  /\ tasks' = [tasks EXCEPT ![t].st = "failed", ![t].exc = "parse"]
  /\ UNCHANGED <<ws, template, workers, pc, rowpos, indexes, error, files, closed>>
  /\ UNCHANGED fvars

\* The exception of doc.save reaches process_documents, as it would through
\* future.result().
TaskWriteFailPropagates(t) ==
  /\ tasks[t].st = "running"
  /\ template.ok
  /\ tasks' = [tasks EXCEPT ![t].st = "failed", ![t].exc = "write"]
  /\ pc' = "raised"
  /\ UNCHANGED <<ws, template, workers, rowpos, indexes, error, files, closed>>
  /\ UNCHANGED fvars

\* doc.save(output_path) raises before it has written the file: the same.
TaskWriteFail(t) ==
  /\ tasks[t].st = "running"
  /\ template.ok
  /\ tasks' = [tasks EXCEPT ![t].st = "failed", ![t].exc = "write"]
  /\ UNCHANGED <<ws, template, workers, pc, rowpos, indexes, error, files, closed>>
  /\ UNCHANGED fvars

\* shutdown(wait=False): process_documents goes on without the work items.
JoinNoWait ==
  /\ pc = "join"
  /\ pc' = "returned"
  /\ closed' = TRUE
  /\ UNCHANGED <<ws, template, workers, rowpos, indexes, error, tasks, files>>
  /\ UNCHANGED fvars

\* Every work item has finished: shutdown returns and line 119 closes the
\* workbook.
Join ==
  /\ pc = "join"
  /\ \A t \in 1..Len(tasks) : tasks[t].st \in {"done", "failed"}
  /\ pc' = "returned"
  /\ closed' = TRUE
  /\ UNCHANGED <<ws, template, workers, rowpos, indexes, error, tasks, files>>
  /\ UNCHANGED fvars

Main == FindHeader \/ LoopRow \/ LoopEnd \/ Join

\* A step of a worker thread.
Worker ==
  \E t \in 1..Len(tasks) :
    TaskStart(t) \/ TaskParseFail(t) \/ TaskWriteFail(t) \/ TaskSave(t)

Next ==
  \/ FindHeader
  \/ LoopRow
  \/ LoopEnd
  \/ Join
  \/ \E t \in 1..Len(tasks) : TaskStart(t)
  \/ \E t \in 1..Len(tasks) : TaskSave(t)
  \/ \E t \in 1..Len(tasks) : TaskParseFail(t)
  \/ \E t \in 1..Len(tasks) : TaskWriteFail(t)

Spec == Init /\ [][Next]_vars

\* The main thread and the worker threads keep running.
FairSpec ==
  /\ Spec
  /\ WF_vars(Main)
  /\ WF_vars(Worker)

\* ------------------------------------------------- placeholder tokens, stated

\* The length of the run of underscores that starts at position p.
RunLen(text, p) ==
  CHOOSE n \in 0..Len(text) :
    /\ p + n - 1 <= Len(text)
    /\ \A k \in p..(p + n - 1) : text[k] = "_"
    /\ (p + n > Len(text) \/ text[p + n] /= "_")

\* The positions where a placeholder token starts: a maximal run of
\* underscores, RE_MIN long or longer.
TokenStarts(text) ==
  {p \in 1..Len(text) :
     /\ text[p] = "_"
     /\ (p = 1 \/ text[p - 1] /= "_")
     /\ RunLen(text, p) >= RE_MIN}

\* The tokens of a document: <<block, element, position>>.
TokensOf(doc) ==
  UNION {UNION {{<<b, j, p>> : p \in TokenStarts(doc[b].texts[j])} :
                  j \in 1..Len(doc[b].texts)} :
           b \in 1..Len(doc)}

NumTokens(doc) == Cardinality(TokensOf(doc))

\* XML order of two tokens: by block, then element, then position.
XmlBefore(doc, s, t) ==
  \/ s[1] < t[1]
  \/ s[1] = t[1] /\ s[2] < t[2]
  \/ s[1] = t[1] /\ s[2] = t[2] /\ s[3] < t[3]

\* Every paragraph before every table, XML order within each kind.
ParagraphsFirstBefore(doc, s, t) ==
  \/ doc[s[1]].kind = "p" /\ doc[t[1]].kind = "tbl"
  \/ doc[s[1]].kind = doc[t[1]].kind /\ XmlBefore(doc, s, t)

\* The text of element j of block b from position p on, with each token
\* replaced by vals[i + 1], i being the number of tokens of the document
\* (toks) that come before it in the order Before, or by rest when vals has
\* no such value.
RECURSIVE ExpectedFrom(_, _, _, _, _, _, _, _)
ExpectedFrom(doc, toks, b, j, p, Before(_, _, _), vals, rest) ==
  LET text == doc[b].texts[j]
  IN IF p > Len(text) THEN <<>>
     ELSE IF <<b, j, p>> \in toks THEN
       LET i == Cardinality({s \in toks : Before(doc, s, <<b, j, p>>)})
           out == IF i < Len(vals) THEN vals[i + 1] ELSE rest
       IN out \o ExpectedFrom(doc, toks, b, j, p + RunLen(text, p),
                              Before, vals, rest)
     ELSE <<text[p]>> \o ExpectedFrom(doc, toks, b, j, p + 1, Before, vals, rest)

\* The document whose i-th token (in the order Before) is vals[i+1], and
\* whose tokens past the end of vals are the text rest.
ExpectedDoc(doc, Before(_, _, _), vals, rest) ==
  LET toks == TokensOf(doc)
  IN [b \in 1..Len(doc) |->
        [doc[b] EXCEPT !.texts =
           [j \in 1..Len(doc[b].texts) |->
              ExpectedFrom(doc, toks, b, j, 1, Before, vals, rest)]]]

\* The strings of the values, as _format_value renders them.
Rendered(values) == [i \in 1..Len(values) |-> _format_value(values[i])]

\* s occurs in text.
Occurs(s, text) ==
  \E i \in 0..(Len(text) - Len(s)) : \A k \in 1..Len(s) : text[i + k] = s[k]

\* s occurs in some text of the document.
OccursInDoc(s, doc) ==
  \E b \in 1..Len(doc) : \E j \in 1..Len(doc[b].texts) : Occurs(s, doc[b].texts[j])

Min(a, b) == IF a < b THEN a ELSE b

\* ------------------------------------------------------------------ claims

\* C1 (as amended): for a record of M values and a template of N >= M tokens,
\* replace_placeholders replaces the i-th token in XML order of the body
\* (paragraphs and tables as they come) with the i-th value, i < M, replaces
\* every later token with the four underscores of PLACEHOLDER, and takes
\* exactly M values from one cursor.
C1_TokenOrder ==
  (fstage = "replaced" /\ Len(fvals) <= NumTokens(fdoc)) =>
    /\ fout = ExpectedDoc(fdoc, XmlBefore, Rendered(fvals), PLACEHOLDER)
    /\ fcur = Len(fvals)

\* C1 witness: a table with a token comes before a paragraph with a token,
\* and the record has values for some tokens but not for all.
C1_Witness ==
  /\ fstage = "replaced"
  /\ Len(fvals) > 0
  /\ Len(fvals) < NumTokens(fdoc)
  /\ \E b, c \in 1..Len(fdoc) :
       /\ b < c
       /\ fdoc[b].kind = "tbl" /\ fdoc[c].kind = "p"
       /\ TokenStarts(fdoc[b].texts[1]) /= {}
       /\ TokenStarts(fdoc[c].texts[1]) /= {}
  /\ fout /= fdoc

\* C1 as stated: the order of the tokens is every paragraph before every
\* table.
C1_AsStated ==
  (fstage = "replaced" /\ Len(fvals) <= NumTokens(fdoc)) =>
    fout = ExpectedDoc(fdoc, ParagraphsFirstBefore, Rendered(fvals), PLACEHOLDER)

\* C2: for a record of M values and a template of N < M tokens, exactly the
\* first N values are substituted, in order; the other values are not taken
\* and occur nowhere in the output.
C2_ExcessValues ==
  (fstage = "replaced" /\ Len(fvals) > NumTokens(fdoc)) =>
    LET N == NumTokens(fdoc)
        used == SubSeq(Rendered(fvals), 1, N)
    IN /\ fcur = N
       /\ fout = ExpectedDoc(fdoc, XmlBefore, used, PLACEHOLDER)
       /\ NumTokens(fout) = Cardinality({i \in 1..N : TokenStarts(used[i]) /= {}})
       /\ \A k \in (N + 1)..Len(fvals) :
            LET s == _format_value(fvals[k])
            IN (/\ s /= <<>>
                /\ ~OccursInDoc(s, fdoc)
                /\ \A i \in 1..N : ~Occurs(s, used[i]))
               => ~OccursInDoc(s, fout)

\* C2 witness: two tokens in two text elements, more values than tokens, and
\* an unused value that is in neither the template nor a used value.
C2_Witness ==
  /\ fstage = "replaced"
  /\ NumTokens(fdoc) >= 2
  /\ Len(fdoc) >= 2
  /\ TokenStarts(fdoc[1].texts[1]) /= {}
  /\ TokenStarts(fdoc[2].texts[1]) /= {}
  /\ Len(fvals) > NumTokens(fdoc)
  /\ fcur = NumTokens(fdoc)
  /\ LET s == _format_value(fvals[Len(fvals)])
     IN /\ s /= <<>>
        /\ ~OccursInDoc(s, fdoc)
        /\ \A i \in 1..NumTokens(fdoc) : ~Occurs(s, _format_value(fvals[i]))

\* What the claim says each value of ValueRing is rendered as.
ClaimedText(v) ==
  CASE v = NoneV -> <<>>
    [] v = FloatV(2024, 0) -> <<"2", "0", "2", "4">>
    [] v = FloatV(2024, 5) -> <<"2", "0", "2", "4", ".", "5">>
    [] v = IntV(12) -> <<"1", "2">>
    [] OTHER -> v.s

\* C8: None is rendered as "", 2024.0 as "2024", 2024.5 as "2024.5" and
\* every other value as its str; formatting a formatted value changes
\* nothing, so the document _generate_document fills has its i-th token
\* replaced by that text of the i-th value, "" for None.
C8_Formatting ==
  /\ \A i \in 1..Len(fvals) :
       /\ _format_value(fvals[i]) = ClaimedText(fvals[i])
       /\ _format_value(StrV(_format_value(fvals[i]))) = ClaimedText(fvals[i])
  /\ fstage = "generated" =>
       /\ fout = ExpectedDoc(fdoc, XmlBefore,
                             [i \in 1..Len(fvals) |-> ClaimedText(fvals[i])],
                             PLACEHOLDER)
       /\ fcur = Min(Len(fvals), NumTokens(fdoc))

\* C8 witness: a record with None before an integral float, both of which
\* met a token.
C8_Witness ==
  /\ fstage = "generated"
  /\ Len(fvals) >= 3
  /\ fvals[1] = NoneV
  /\ fvals[2] = FloatV(2024, 0)
  /\ fvals[3] = StrV(Underscores(RE_MIN + 1))
  /\ fcur = 3
  /\ NumTokens(fout) = 1

\* ------------------------------------------------------ the worksheet, stated

\* The cell holds the header name h, spaces before and after it aside.
NamesHeader(cell, h) ==
  /\ cell.t = "str"
  /\ Len(cell.s) >= Len(h)
  /\ \E a \in 0..(Len(cell.s) - Len(h)) :
       \A i \in 1..Len(cell.s) :
         IF i > a /\ i <= a + Len(h) THEN cell.s[i] = h[i - a] ELSE cell.s[i] = " "

IsHeaderRow(row) ==
  \A k \in 1..Len(REQUIRED_HEADERS) :
    \E c \in 1..Len(row) : NamesHeader(row[c], REQUIRED_HEADERS[k])

HeaderRows(sheet) == {r \in 1..Len(sheet) : IsHeaderRow(sheet[r])}

\* The first row that holds every required header; 0 when there is none.
HeaderRow(sheet) ==
  LET rs == HeaderRows(sheet)
  IN IF rs = {} THEN 0 ELSE CHOOSE r \in rs : \A q \in rs : r <= q

\* The first column (from 0) of the row that holds the k-th header.
ColumnOf(row, k) ==
  LET cs == {c \in 1..Len(row) : NamesHeader(row[c], REQUIRED_HEADERS[k])}
  IN (CHOOSE c \in cs : \A d \in cs : c <= d) - 1

\* The header row of the worksheet and the column of each required header;
\* the records of the rows after it, each the cells under the headers in the
\* order of REQUIRED_HEADERS, None past the end of the row.
Resolved(sheet) ==
  LET hr == HeaderRow(sheet)
      cols == IF hr = 0 THEN <<>>
              ELSE [k \in 1..Len(REQUIRED_HEADERS) |-> ColumnOf(sheet[hr], k)]
  IN [hr |-> hr,
      cols |-> cols,
      recs |-> [r \in 1..Len(sheet) |->
                  IF hr = 0 \/ r <= hr THEN <<>>
                  ELSE [k \in 1..Len(REQUIRED_HEADERS) |->
                          IF cols[k] < Len(sheet[r]) THEN sheet[r][cols[k] + 1]
                          ELSE NoneV]]]

\* Row r comes after the header row and some cell under a header is not None.
Qualifies(h, r) ==
  /\ r > h.hr
  /\ \E k \in 1..Len(REQUIRED_HEADERS) : h.recs[r][k] /= NoneV

\* The header names that no cell of the worksheet holds.
AbsentHeaders(sheet) ==
  {REQUIRED_HEADERS[k] : k \in
     {k \in 1..Len(REQUIRED_HEADERS) :
        \A r \in 1..Len(sheet) : \A c \in 1..Len(sheet[r]) :
          ~NamesHeader(sheet[r][c], REQUIRED_HEADERS[k])}}

Found == pc \in {"loop", "join", "returned"}

TaskIds == 1..Len(tasks)

Finished(t) == tasks[t].st \in {"done", "failed"}

\* The name and the document of each task, from the record of its row.
TaskDocs(h) ==
  [t \in TaskIds |-> FillDocument(template.body, h.recs[tasks[t].row])]

\* C3 as stated: a row whose cells under the required headers are all None,
\* empty or past the end of the row gets no task and no document.
C3_AsStated ==
  Found =>
    LET h == Resolved(ws)
    IN \A r \in (h.hr + 1)..rowpos :
         (\A k \in 1..Len(REQUIRED_HEADERS) : h.recs[r][k] \in {NoneV, StrV(<<>>)})
           => /\ \A t \in TaskIds : tasks[t].row /= r
              /\ <<>> \notin DOMAIN files

\* C4 as stated: without a header row, process_documents raises before any
\* task or document, and the message names exactly the absent headers.
C4_AsStated ==
  pc = "raised" =>
    /\ tasks = <<>>
    /\ DOMAIN files = {}
    /\ {error[i] : i \in 1..Len(error)} = AbsentHeaders(ws)

\* C5: the indexes are the columns of the required headers in the first row
\* that holds them all, trimmed; every task is of a later row and its record
\* is the cells under the headers in the order of REQUIRED_HEADERS; every
\* document is named by the cell under the first header.
C5_HeaderResolution ==
  /\ Found =>
       LET h == Resolved(ws)
       IN /\ h.hr > 0
          /\ rowpos >= h.hr
          /\ indexes = h.cols
          /\ \A t \in TaskIds :
               /\ tasks[t].row > h.hr
               /\ tasks[t].values = h.recs[tasks[t].row]
               /\ tasks[t].st = "done" =>
                    _format_value(h.recs[tasks[t].row][1]) \in DOMAIN files
          /\ \A n \in DOMAIN files :
               \E t \in TaskIds :
                 tasks[t].st = "done" /\ n = _format_value(h.recs[tasks[t].row][1])
  /\ pc = "raised" => HeaderRows(ws) = {}

\* C5 witness: the header row is the second row, its columns are not in the
\* order of REQUIRED_HEADERS, and a document named by the first field exists.
C5_Witness ==
  /\ pc = "returned"
  /\ HeaderRow(ws) = 2
  /\ indexes = <<3, 5, 1, 4, 0>>
  /\ \E t \in TaskIds :
       /\ tasks[t].st = "done"
       /\ tasks[t].values[1] = Acme
       /\ tasks[t].values[4] = FloatV(500, 0)
  /\ Acme.s \in DOMAIN files

\* When two tasks that saved name the same file and no later task that saved
\* names it, the file holds the document of the later of the two.
LaterRowWins ==
  LET d == TaskDocs(Resolved(ws))
  IN \A t, u \in TaskIds :
       (/\ t < u
        /\ tasks[t].st = "done" /\ tasks[u].st = "done"
        /\ d[t].name = d[u].name
        /\ \A w \in TaskIds :
             (w > u /\ tasks[w].st = "done") => d[w].name /= d[u].name)
         => files[d[u].name] = d[u].doc

\* C6 (as amended): with one worker, when two rows name the same file and
\* both tasks saved, the file holds the document of the later row once
\* process_documents has returned.
C6_OneWorkerLaterRowWins == (pc = "returned" /\ workers = 1) => LaterRowWins

\* C6 witness: one worker, two saved tasks of the same name and different
\* documents.
C6_Witness ==
  /\ pc = "returned"
  /\ workers = 1
  /\ LET d == TaskDocs(Resolved(ws))
     IN \E t, u \in TaskIds :
          /\ t < u
          /\ tasks[t].st = "done" /\ tasks[u].st = "done"
          /\ d[t].name = d[u].name
          /\ d[t].doc /= d[u].doc
          /\ files[d[u].name] = d[u].doc

\* C6 as stated: the same for every pool size.
C6_AsStated == pc = "returned" => LaterRowWins

\* C7: when a task has failed, process_documents has not raised; every
\* qualifying row read so far still has its task; once every task has
\* finished the executor lets process_documents return; and after the return
\* every task that did not fail has saved its document.
C7_FailureSwallowed ==
  (\E t \in TaskIds : tasks[t].st = "failed") =>
    LET h == Resolved(ws)
    IN /\ Found
       /\ error = <<>>
       /\ \A r \in (h.hr + 1)..rowpos :
            Qualifies(h, r) => \E t \in TaskIds : tasks[t].row = r
       /\ (pc = "join" /\ \A t \in TaskIds : Finished(t)) => ENABLED Join
       /\ pc = "returned" =>
            /\ rowpos = Len(ws)
            /\ \A t \in TaskIds :
                 tasks[t].st = "failed" \/
                   (tasks[t].st = "done" /\ TaskDocs(h)[t].name \in DOMAIN files)

\* C7 witness: process_documents returned, a task failed, and a task
\* submitted after it saved its document.
C7_Witness ==
  /\ pc = "returned"
  /\ LET d == TaskDocs(Resolved(ws))
     IN \E t, u \in TaskIds :
          /\ t < u
          /\ tasks[t].st = "failed"
          /\ tasks[u].st = "done"
          /\ files[d[u].name] = d[u].doc

\* C9: a record has one field per required header; a resolved column at or
\* past the end of the row gives None; no error is raised; and a row with a
\* value in range has its task.
C9_ShortRow ==
  Found =>
    /\ error = <<>>
    /\ \A t \in TaskIds :
         /\ Len(tasks[t].values) = Len(REQUIRED_HEADERS)
         /\ \A k \in 1..Len(REQUIRED_HEADERS) :
              indexes[k] >= Len(ws[tasks[t].row]) => tasks[t].values[k] = NoneV
    /\ \A r \in (HeaderRow(ws) + 1)..rowpos :
         (\E k \in 1..Len(REQUIRED_HEADERS) :
            indexes[k] < Len(ws[r]) /\ ws[r][indexes[k] + 1] /= NoneV)
           => \E t \in TaskIds : tasks[t].row = r

\* C9 witness: a task of a row that ends before the largest resolved column
\* and holds a value in range.
C9_Witness ==
  \E t \in TaskIds :
    /\ tasks[t].st = "done"
    /\ \E k \in 1..Len(REQUIRED_HEADERS) :
         indexes[k] >= Len(ws[tasks[t].row]) /\ tasks[t].values[k] = NoneV
    /\ \E k \in 1..Len(REQUIRED_HEADERS) :
         indexes[k] < Len(ws[tasks[t].row]) /\ tasks[t].values[k] /= NoneV

\* The tasks are of the qualifying rows read so far, one each, in row order;
\* no more than max_workers run; the workbook is closed, and
\* process_documents returns, only when every task has finished.
C10_Safe ==
  /\ Cardinality(Running) <= workers
  /\ \A t, u \in TaskIds : t < u => tasks[t].row < tasks[u].row
  /\ Found =>
       LET h == Resolved(ws)
       IN \A r \in 1..Len(ws) :
            (\E t \in TaskIds : tasks[t].row = r) <=> (Qualifies(h, r) /\ r <= rowpos)
  /\ closed <=> pc = "returned"
  /\ pc = "returned" =>
       /\ rowpos = Len(ws)
       /\ \A t \in TaskIds : Finished(t)

\* C10: exactly one task per qualifying row; process_documents returns and
\* closes the workbook only after every task has finished, whatever the pool
\* size; and once the header row is found it does return.
C10_OneTaskPerRowThenReturn ==
  /\ []C10_Safe
  /\ (pc = "loop") ~> (pc = "returned")

\* C10 witness: process_documents returned with two workers and the tasks of
\* two rows, one saved and one failed.
C10_Witness ==
  /\ pc = "returned"
  /\ closed
  /\ workers > 1
  /\ Len(tasks) = 2
  /\ \E t \in TaskIds : tasks[t].st = "failed"
  /\ \E t \in TaskIds : tasks[t].st = "done"

=============================================================================
